---- MODULE Spec2Model ----
(***************************************************************************)
(* Schema onboarding and import engine of the voter registration           *)
(* framework: the column mapping resolver (analyze_columns), the address   *)
(* field composer (analyze_address_fields), the profile they produce       *)
(* (onboard_state) and the chunked import into the SQLite sink             *)
(* (import_main, import_data, create_table, DataFrame.to_sql).             *)
(*                                                                         *)
(* Column names and cell values are Python strings, modelled as sequences  *)
(* of one-character strings, so that lower(), strip(), the substring test  *)
(* `p in s` and ' '.join are computed rather than assumed.  Canonical      *)
(* field names (the columns of the destination table) are TLA+ strings.    *)
(***************************************************************************)
EXTENDS Integers, Sequences, FiniteSets, TLC

VARIABLES
    config,        \* the profile of the jurisdiction on disk, or NoConfig
    tableExists,   \* the destination table is in sqlite_master
    table,         \* committed rows of the destination table, in rowid order
    pc,            \* position of the current import_main invocation
    force,         \* args.force of the current invocation
    df,            \* the DataFrame read_data_file returned to this invocation
    df_mapped,     \* the canonical frame import_data built from df
    i,             \* loop variable of the chunk loop of import_data
    chunk_size,    \* chunk_size of import_data
    stdout,        \* status lines this invocation has printed
    error,         \* the exception that ended this invocation, or "none"
    tableBefore,   \* history: table when this invocation started
    runs,          \* history: number of import_main invocations so far
    peer           \* an import_main invocation of another process on the same
                   \* database: its pc, df_mapped, i and error

vars == <<config, tableExists, table, pc, force, df, df_mapped, i, chunk_size,
          stdout, error, tableBefore, runs, peer>>

-----------------------------------------------------------------------------
(* Python strings *)

\* str.lower() on the ASCII letters
upper_case == <<"A","B","C","D","E","F","G","H","I","J","K","L","M",
                "N","O","P","Q","R","S","T","U","V","W","X","Y","Z">>
lower_case == <<"a","b","c","d","e","f","g","h","i","j","k","l","m",
                "n","o","p","q","r","s","t","u","v","w","x","y","z">>

lower_char(c) ==
    IF \E k \in DOMAIN upper_case : upper_case[k] = c
    THEN lower_case[CHOOSE k \in DOMAIN upper_case : upper_case[k] = c]
    ELSE c

lower(s) == [k \in 1..Len(s) |-> lower_char(s[k])]

\* `p in s` for two strings
is_substring(p, s) ==
    \E k \in 0..(Len(s) - Len(p)) : SubSeq(s, k + 1, k + Len(p)) = p

whitespace == {" ", "\t", "\n"}

RECURSIVE lstrip(_)
lstrip(s) == IF s # <<>> /\ Head(s) \in whitespace THEN lstrip(Tail(s)) ELSE s

RECURSIVE rstrip(_)
rstrip(s) ==
    IF s # <<>> /\ s[Len(s)] \in whitespace THEN rstrip(SubSeq(s, 1, Len(s) - 1)) ELSE s

\* str.strip()
strip(s) == rstrip(lstrip(s))

\* ''.join(parts): the separator left out
RECURSIVE join_unseparated(_, _)
join_unseparated(sep, parts) ==
    IF parts = <<>> THEN <<>> ELSE parts[1] \o join_unseparated(sep, Tail(parts))

\* sep.join(parts)
RECURSIVE join(_, _)
join(sep, parts) ==
    IF parts = <<>> THEN <<>>
    ELSE IF Len(parts) = 1 THEN parts[1]
    ELSE parts[1] \o sep \o join(sep, Tail(parts))

-----------------------------------------------------------------------------
(* Python lists are sequences; dicts are insertion-ordered sequences of       *)
(* <<key, value>> pairs with pairwise different keys                          *)

\* the list with the elements of s, built in full
list(s) == SubSeq(s, 1, Len(s))

\* the items a loop has been through before its last one, and its last one
Front(s) == SubSeq(s, 1, Len(s) - 1)

Last(s) == s[Len(s)]

dict_has(d, key) == \E k \in 1..Len(d) : d[k][1] = key

dict_get(d, key) == d[CHOOSE k \in 1..Len(d) : d[k][1] = key][2]

\* d[key] = value: an existing key keeps its position
dict_set(d, key, value) ==
    IF dict_has(d, key)
    THEN list([k \in 1..Len(d) |-> IF d[k][1] = key THEN <<key, value>> ELSE d[k]])
    ELSE Append(d, <<key, value>>)

dict_keys(d) == list([k \in 1..Len(d) |-> d[k][1]])

\* the dict left by `d[key] = value` for each <<key, value>> of items in turn:
\* a key stands where it was first set and holds the value it was last given
dict_of(items) ==
    LET assignments == list(items)
        positions   == list([k \in 1..Len(assignments) |-> k])
        first_set(k) == \A j \in 1..(k - 1) : assignments[j][1] # assignments[k][1]
        last_set(k)  == CHOOSE m \in k..Len(assignments) :
                            /\ assignments[m][1] = assignments[k][1]
                            /\ \A j \in (m + 1)..Len(assignments) :
                                   assignments[j][1] # assignments[k][1]
        keys == SelectSeq(positions, first_set)
    IN  list([n \in 1..Len(keys) |->
                <<assignments[keys[n]][1], assignments[last_set(keys[n])][2]>>])

\* {col.lower(): col for col in columns}
df_col_lookup(columns) ==
    dict_of([k \in 1..Len(columns) |-> <<lower(columns[k]), columns[k]>>])

-----------------------------------------------------------------------------
(* The pattern tables of onboard_state.py *)

\* onboard_state.py:60-79
name_patterns ==
  << <<"first_name", <<<<"f","i","r","s","t">>, <<"g","i","v","e","n">>, <<"f","n","a","m","e">>, <<"f","i","r","s","t","n","a","m","e">>, <<"n","a","m","e","_","f","i","r","s","t">>>>>>,
     <<"last_name", <<<<"l","a","s","t">>, <<"s","u","r","n","a","m","e">>, <<"l","n","a","m","e">>, <<"l","a","s","t","n","a","m","e">>, <<"n","a","m","e","_","l","a","s","t">>>>>>,
     <<"middle_name", <<<<"m","i","d","d","l","e">>, <<"m","n","a","m","e">>, <<"m","i","d","d","l","e","n","a","m","e">>, <<"n","a","m","e","_","m","i","d","d","l","e">>>>>>,
     <<"birth_year", <<<<"b","i","r","t","h">>, <<"d","o","b">>, <<"b","i","r","t","h","d","a","t","e">>, <<"d","a","t","e","_","o","f","_","b","i","r","t","h">>, <<"b","i","r","t","h","y","e","a","r">>>>>>,
     <<"birthday", <<<<"b","i","r","t","h","d","a","y">>, <<"d","a","y","_","o","f","_","b","i","r","t","h">>>>>>,
     <<"registration_date", <<<<"r","e","g","i","s","t","r","a","t","i","o","n","d","a","t","e">>, <<"r","e","g","d","a","t","e">>, <<"r","e","g","i","s","t","r","a","t","i","o","n","_","d","a","t","e">>>>>>,
     <<"city", <<<<"c","i","t","y">>, <<"t","o","w","n">>, <<"r","e","g","c","i","t","y">>>>>>,
     <<"state", <<<<"s","t","a","t","e">>, <<"r","e","g","s","t","a","t","e">>>>>>,
     <<"zip_code", <<<<"z","i","p">>, <<"p","o","s","t","a","l">>, <<"z","i","p","c","o","d","e">>, <<"r","e","g","z","i","p","c","o","d","e">>>>>>,
     <<"gender", <<<<"s","e","x">>, <<"g","e","n","d","e","r">>>>>>,
     <<"party", <<<<"p","a","r","t","y">>, <<"p","o","l","i","t","i","c","a","l">>, <<"a","f","f","i","l","i","a","t","i","o","n">>>>>>,
     <<"precinct", <<<<"p","r","e","c","i","n","c","t">>, <<"d","i","s","t","r","i","c","t">>, <<"p","r","e","c","i","n","c","t","c","o","d","e">>, <<"p","r","e","c","i","n","c","t","_","i","d">>>>>>,
     <<"county", <<<<"c","o","u","n","t","y">>, <<"p","a","r","i","s","h">>, <<"c","o","u","n","t","y","c","o","d","e">>, <<"c","o","u","n","t","y","_","n","a","m","e">>>>>>,
     <<"voter_id", <<<<"v","o","t","e","r","i","d">>, <<"v","o","t","e","r","_","i","d">>, <<"s","t","a","t","e","v","o","t","e","r","i","d">>, <<"v","o","t","e","r">>, <<"v","o","t","i","d">>, <<"i","d">>>>>>,
     <<"legislative_district", <<<<"l","e","g","i","s","l","a","t","i","v","e","d","i","s","t","r","i","c","t">>, <<"l","e","g","d","i","s","t","r","i","c","t">>>>>>,
     <<"congressional_district", <<<<"c","o","n","g","r","e","s","s","i","o","n","a","l","d","i","s","t","r","i","c","t">>, <<"c","o","n","g","d","i","s","t","r","i","c","t">>>>>>,
     <<"last_voted_date", <<<<"l","a","s","t","v","o","t","e","d">>, <<"l","a","s","t","_","v","o","t","e","d">>, <<"l","a","s","t","v","o","t","e","d","d","a","t","e">>>>>>,
     <<"status_code", <<<<"s","t","a","t","u","s","c","o","d","e">>, <<"s","t","a","t","u","s">>, <<"v","o","t","e","r","_","s","t","a","t","u","s">>>>>> >>

\* onboard_state.py:82-91
address_patterns ==
  << <<"address_street_number", <<<<"s","t","n","u","m">>, <<"s","t","r","e","e","t","_","n","u","m","b","e","r">>, <<"h","o","u","s","e","n","u","m","b","e","r">>, <<"r","e","g","s","t","n","u","m">>, <<"s","t","n","u","m","b","e","r">>, <<"a","d","d","r","e","s","s","_","n","u","m","b","e","r">>, <<"s","t","r","e","e","t","n","o">>>>>>,
     <<"address_street_fraction", <<<<"s","t","f","r","a","c">>, <<"f","r","a","c","t","i","o","n">>, <<"r","e","g","s","t","f","r","a","c">>, <<"a","d","d","r","e","s","s","_","f","r","a","c">>>>>>,
     <<"address_street_pre_direction", <<<<"s","t","p","r","e","d","i","r">>, <<"p","r","e","d","i","r","e","c","t","i","o","n">>, <<"r","e","g","s","t","p","r","e","d","i","r","e","c","t","i","o","n">>, <<"a","d","d","r","e","s","s","_","d","i","r","_","p","r","e">>, <<"s","t","r","e","e","t","d","i","r">>>>>>,
     <<"address_street_name", <<<<"s","t","n","a","m","e">>, <<"s","t","r","e","e","t","_","n","a","m","e">>, <<"r","e","g","s","t","n","a","m","e">>, <<"a","d","d","r","e","s","s","_","s","t","r","e","e","t">>, <<"s","t","r","e","e","t","n","a","m","e">>>>>>,
     <<"address_street_type", <<<<"s","t","t","y","p","e">>, <<"s","t","r","e","e","t","_","t","y","p","e">>, <<"r","e","g","s","t","t","y","p","e">>, <<"a","d","d","r","e","s","s","_","s","u","f","f","i","x">>, <<"s","t","r","e","e","t","t","y","p","e">>>>>>,
     <<"address_unit_type", <<<<"u","n","i","t","t","y","p","e">>, <<"r","e","g","u","n","i","t","t","y","p","e">>, <<"a","d","d","r","e","s","s","_","u","n","i","t","_","t","y","p","e">>>>>>,
     <<"address_street_post_direction", <<<<"s","t","p","o","s","t","d","i","r">>, <<"p","o","s","t","d","i","r","e","c","t","i","o","n">>, <<"r","e","g","s","t","p","o","s","t","d","i","r","e","c","t","i","o","n">>, <<"a","d","d","r","e","s","s","_","d","i","r","_","p","o","s","t">>>>>>,
     <<"address_unit_number", <<<<"u","n","i","t","n","u","m">>, <<"r","e","g","s","t","u","n","i","t","n","u","m">>, <<"a","d","d","r","e","s","s","_","u","n","i","t">>, <<"u","n","i","t","n","o">>>>>> >>

\* onboard_state.py:94-102
mailing_patterns ==
  << <<"mailing_address", <<<<"m","a","i","l","1">>, <<"m","a","i","l","i","n","g","a","d","d","r","e","s","s">>>>>>,
     <<"mailing_address2", <<<<"m","a","i","l","2">>, <<"m","a","i","l","i","n","g","a","d","d","r","e","s","s","2">>>>>>,
     <<"mailing_address3", <<<<"m","a","i","l","3">>, <<"m","a","i","l","i","n","g","a","d","d","r","e","s","s","3">>>>>>,
     <<"mailing_city", <<<<"m","a","i","l","c","i","t","y">>>>>>,
     <<"mailing_state", <<<<"m","a","i","l","s","t","a","t","e">>>>>>,
     <<"mailing_zip", <<<<"m","a","i","l","z","i","p">>>>>>,
     <<"mailing_country", <<<<"m","a","i","l","c","o","u","n","t","r","y">>>>>> >>

\* onboard_state.py state_mappings['WA']
state_mappings_WA ==
  << <<<<"F","N","a","m","e">>, "first_name">>,
     <<<<"L","N","a","m","e">>, "last_name">>,
     <<<<"M","N","a","m","e">>, "middle_name">>,
     <<<<"S","t","a","t","e","V","o","t","e","r","I","D">>, "voter_id">>,
     <<<<"B","i","r","t","h","y","e","a","r">>, "birth_year">>,
     <<<<"G","e","n","d","e","r">>, "gender">>,
     <<<<"P","r","e","c","i","n","c","t","C","o","d","e">>, "precinct">>,
     <<<<"C","o","u","n","t","y","C","o","d","e">>, "county">>,
     <<<<"L","e","g","i","s","l","a","t","i","v","e","D","i","s","t","r","i","c","t">>, "legislative_district">>,
     <<<<"C","o","n","g","r","e","s","s","i","o","n","a","l","D","i","s","t","r","i","c","t">>, "congressional_district">>,
     <<<<"L","a","s","t","V","o","t","e","d">>, "last_voted_date">>,
     <<<<"S","t","a","t","u","s","C","o","d","e">>, "status_code">>,
     <<<<"R","e","g","S","t","N","u","m">>, "address_street_number">>,
     <<<<"R","e","g","S","t","F","r","a","c">>, "address_street_fraction">>,
     <<<<"R","e","g","S","t","P","r","e","D","i","r","e","c","t","i","o","n">>, "address_street_pre_direction">>,
     <<<<"R","e","g","S","t","N","a","m","e">>, "address_street_name">>,
     <<<<"R","e","g","S","t","T","y","p","e">>, "address_street_type">>,
     <<<<"R","e","g","U","n","i","t","T","y","p","e">>, "address_unit_type">>,
     <<<<"R","e","g","S","t","P","o","s","t","D","i","r","e","c","t","i","o","n">>, "address_street_post_direction">>,
     <<<<"R","e","g","S","t","U","n","i","t","N","u","m">>, "address_unit_number">>,
     <<<<"M","a","i","l","1">>, "mailing_address">>,
     <<<<"M","a","i","l","2">>, "mailing_address2">>,
     <<<<"M","a","i","l","3">>, "mailing_address3">>,
     <<<<"M","a","i","l","C","i","t","y">>, "mailing_city">>,
     <<<<"M","a","i","l","S","t","a","t","e">>, "mailing_state">>,
     <<<<"M","a","i","l","Z","i","p">>, "mailing_zip">>,
     <<<<"M","a","i","l","C","o","u","n","t","r","y">>, "mailing_country">>,
     <<<<"R","e","g","i","s","t","r","a","t","i","o","n","d","a","t","e">>, "registration_date">>,
     <<<<"R","e","g","C","i","t","y">>, "city">>,
     <<<<"R","e","g","S","t","a","t","e">>, "state">>,
     <<<<"R","e","g","Z","i","p","C","o","d","e">>, "zip_code">> >>

\* onboard_state.py state_mappings['OR']
state_mappings_OR ==
  << <<<<"V","o","t","e","r","I","d">>, "voter_id">>,
     <<<<"F","i","r","s","t","N","a","m","e">>, "first_name">>,
     <<<<"L","a","s","t","N","a","m","e">>, "last_name">>,
     <<<<"M","i","d","d","l","e","N","a","m","e">>, "middle_name">>,
     <<<<"B","i","r","t","h","Y","e","a","r">>, "birth_year">>,
     <<<<"R","e","g","D","a","t","e">>, "registration_date">>,
     <<<<"C","i","t","y">>, "city">>,
     <<<<"S","t","a","t","e">>, "state">>,
     <<<<"Z","i","p">>, "zip_code">>,
     <<<<"S","e","x">>, "gender">>,
     <<<<"P","r","e","c","i","n","c","t">>, "precinct">>,
     <<<<"C","o","u","n","t","y">>, "county">>,
     <<<<"L","e","g","D","i","s","t","r","i","c","t">>, "legislative_district">>,
     <<<<"C","o","n","g","D","i","s","t","r","i","c","t">>, "congressional_district">>,
     <<<<"L","a","s","t","V","o","t","e","d","D","a","t","e">>, "last_voted_date">>,
     <<<<"S","t","a","t","u","s">>, "status_code">>,
     <<<<"S","t","r","e","e","t","N","o">>, "address_street_number">>,
     <<<<"S","t","r","e","e","t","D","i","r">>, "address_street_pre_direction">>,
     <<<<"S","t","r","e","e","t","N","a","m","e">>, "address_street_name">>,
     <<<<"S","t","r","e","e","t","T","y","p","e">>, "address_street_type">>,
     <<<<"U","n","i","t","T","y","p","e">>, "address_unit_type">>,
     <<<<"U","n","i","t","N","o">>, "address_unit_number">>,
     <<<<"M","a","i","l","A","d","d","r","e","s","s">>, "mailing_address">>,
     <<<<"M","a","i","l","C","i","t","y">>, "mailing_city">>,
     <<<<"M","a","i","l","S","t","a","t","e">>, "mailing_state">>,
     <<<<"M","a","i","l","Z","i","p">>, "mailing_zip">> >>

\* onboard_state.py state_mappings['CA']
state_mappings_CA ==
  << <<<<"I","D">>, "voter_id">>,
     <<<<"N","A","M","E","_","F","I","R","S","T">>, "first_name">>,
     <<<<"N","A","M","E","_","L","A","S","T">>, "last_name">>,
     <<<<"N","A","M","E","_","M","I","D","D","L","E">>, "middle_name">>,
     <<<<"N","A","M","E","_","S","U","F","F","I","X">>, "suffix">>,
     <<<<"B","I","R","T","H","_","Y","E","A","R">>, "birth_year">>,
     <<<<"G","E","N","D","E","R">>, "gender">>,
     <<<<"A","D","D","R","E","S","S","_","F","U","L","L">>, "address">>,
     <<<<"C","I","T","Y">>, "city">>,
     <<<<"S","T","A","T","E">>, "state">>,
     <<<<"Z","I","P">>, "zip_code">>,
     <<<<"C","O","U","N","T","Y","_","N","A","M","E">>, "county">>,
     <<<<"P","R","E","C","I","N","C","T","_","I","D">>, "precinct">>,
     <<<<"A","S","S","E","M","B","L","Y","_","D","I","S","T","R","I","C","T">>, "legislative_district">>,
     <<<<"C","O","N","G","R","E","S","S","_","D","I","S","T","R","I","C","T">>, "congressional_district">>,
     <<<<"L","A","S","T","_","V","O","T","E","D","_","D","A","T","E">>, "last_voted_date">>,
     <<<<"V","O","T","E","R","_","S","T","A","T","U","S">>, "status_code">>,
     <<<<"M","A","I","L","I","N","G","_","A","D","D","R","E","S","S">>, "mailing_address">>,
     <<<<"M","A","I","L","I","N","G","_","C","I","T","Y">>, "mailing_city">>,
     <<<<"M","A","I","L","I","N","G","_","S","T","A","T","E">>, "mailing_state">>,
     <<<<"M","A","I","L","I","N","G","_","Z","I","P">>, "mailing_zip">>,
     <<<<"R","E","G","I","S","T","R","A","T","I","O","N","_","D","A","T","E">>, "registration_date">> >>

\* onboard_state.py:198-202 key_columns['WA']
key_columns_WA == << <<"F","N","a","m","e">>, <<"L","N","a","m","e">>, <<"S","t","a","t","e","V","o","t","e","r","I","D">> >>

\* onboard_state.py:198-202 key_columns['OR']
key_columns_OR == << <<"F","i","r","s","t","N","a","m","e">>, <<"L","a","s","t","N","a","m","e">>, <<"V","o","t","e","r","I","d">> >>

\* onboard_state.py:198-202 key_columns['CA']
key_columns_CA == << <<"N","A","M","E","_","F","I","R","S","T">>, <<"N","A","M","E","_","L","A","S","T">>, <<"I","D">> >>

\* onboard_state.py:258-270
composer_address_patterns ==
  << <<"street_number", <<<<"s","t","n","u","m">>, <<"s","t","r","e","e","t","_","n","u","m","b","e","r">>, <<"h","o","u","s","e","n","u","m","b","e","r">>, <<"r","e","g","s","t","n","u","m">>, <<"s","t","n","u","m","b","e","r">>, <<"a","d","d","r","e","s","s","_","n","u","m","b","e","r">>, <<"s","t","r","e","e","t","n","o">>, <<"r","e","s","_","s","t","r","e","e","t","_","n","u","m","b","e","r">>>>>>,
     <<"street_fraction", <<<<"s","t","f","r","a","c">>, <<"f","r","a","c","t","i","o","n">>, <<"r","e","g","s","t","f","r","a","c">>, <<"a","d","d","r","e","s","s","_","f","r","a","c">>, <<"r","e","s","_","s","t","r","e","e","t","_","f","r","a","c","t","i","o","n">>>>>>,
     <<"street_pre_direction", <<<<"s","t","p","r","e","d","i","r">>, <<"p","r","e","d","i","r","e","c","t","i","o","n">>, <<"r","e","g","s","t","p","r","e","d","i","r","e","c","t","i","o","n">>, <<"a","d","d","r","e","s","s","_","d","i","r","_","p","r","e">>, <<"s","t","r","e","e","t","d","i","r">>, <<"r","e","s","_","s","t","r","e","e","t","_","p","r","e","_","d","i","r","e","c","t","i","o","n">>>>>>,
     <<"street_name", <<<<"s","t","n","a","m","e">>, <<"s","t","r","e","e","t","_","n","a","m","e">>, <<"r","e","g","s","t","n","a","m","e">>, <<"a","d","d","r","e","s","s","_","s","t","r","e","e","t">>, <<"s","t","r","e","e","t","n","a","m","e">>, <<"r","e","s","_","s","t","r","e","e","t","_","n","a","m","e">>>>>>,
     <<"street_type", <<<<"s","t","t","y","p","e">>, <<"s","t","r","e","e","t","_","t","y","p","e">>, <<"r","e","g","s","t","t","y","p","e">>, <<"a","d","d","r","e","s","s","_","s","u","f","f","i","x">>, <<"s","t","r","e","e","t","t","y","p","e">>, <<"r","e","s","_","s","t","r","e","e","t","_","t","y","p","e">>>>>>,
     <<"unit_type", <<<<"u","n","i","t","t","y","p","e">>, <<"r","e","g","u","n","i","t","t","y","p","e">>, <<"a","d","d","r","e","s","s","_","u","n","i","t","_","t","y","p","e">>, <<"r","e","s","_","u","n","i","t","_","t","y","p","e">>>>>>,
     <<"street_post_direction", <<<<"s","t","p","o","s","t","d","i","r">>, <<"p","o","s","t","d","i","r","e","c","t","i","o","n">>, <<"r","e","g","s","t","p","o","s","t","d","i","r","e","c","t","i","o","n">>, <<"a","d","d","r","e","s","s","_","d","i","r","_","p","o","s","t">>, <<"r","e","s","_","s","t","r","e","e","t","_","p","o","s","t","_","d","i","r","e","c","t","i","o","n">>>>>>,
     <<"unit_number", <<<<"u","n","i","t","n","u","m">>, <<"r","e","g","s","t","u","n","i","t","n","u","m">>, <<"a","d","d","r","e","s","s","_","u","n","i","t">>, <<"u","n","i","t","n","o">>, <<"r","e","s","_","u","n","i","t","_","n","u","m","b","e","r">>>>>>,
     <<"city", <<<<"c","i","t","y">>, <<"r","e","g","c","i","t","y">>, <<"r","e","s","_","c","i","t","y">>>>>>,
     <<"state", <<<<"s","t","a","t","e">>, <<"r","e","g","s","t","a","t","e">>, <<"r","e","s","_","s","t","a","t","e">>>>>>,
     <<"zip", <<<<"z","i","p">>, <<"z","i","p","c","o","d","e">>, <<"r","e","g","z","i","p","c","o","d","e">>, <<"r","e","s","_","z","i","p">>>>>> >>

\* onboard_state.py:273-275
composer_mailing_patterns == << <<"m","a","i","l">>, <<"m","a","i","l","i","n","g">>, <<"m","a","i","l","c","i","t","y">>, <<"m","a","i","l","s","t","a","t","e">>, <<"m","a","i","l","z","i","p">>, <<"m","a","i","l","c","o","u","n","t","r","y">> >>

\* onboard_state.py:278-280
voter_id_patterns == << <<"v","o","t","e","r","i","d">>, <<"v","o","t","e","r","_","i","d">>, <<"s","t","a","t","e","v","o","t","e","r","i","d">>, <<"v","o","t","e","r">>, <<"v","o","t","i","d">>, <<"i","d">> >>

\* onboard_state.py:292-304
address_component_order == << "street_number", "street_fraction", "street_pre_direction", "street_name", "street_type", "unit_type", "street_post_direction", "unit_number", "city", "state", "zip" >>

-----------------------------------------------------------------------------
(* Column Mapping Resolver: analyze_columns *)

\* any(pattern in col_lower for pattern in patterns)
matches_any(patterns, col_lower) ==
    \E k \in 1..Len(patterns) : is_substring(patterns[k], col_lower)

\* all(any(key.lower() == col_lower for col_lower in df_col_lookup) for key in keys)
all_key_columns(keys, lookup) ==
    \A k \in 1..Len(keys) : dict_has(lookup, lower(keys[k]))

\* the loop over state_map.items() that fills case_sensitive_mappings
case_sensitive_mappings(state_map, lookup) ==
    LET in_file(entry) == /\ dict_has(lookup, lower(entry[1]))
                          /\ dict_get(lookup, lower(entry[1])) # <<>>
        found == SelectSeq(state_map, in_file)
    IN  dict_of([k \in 1..Len(found) |->
                    <<dict_get(lookup, lower(found[k][1])), found[k][2]>>])

\* the inner loop without its break: every matching column is assigned
assign_every_match(patterns, lookup, k) == matches_any(patterns, lookup[k][1])

\* the inner loop `for col_lower, actual_col in df_col_lookup.items()` assigns
\* the field at column k of the lookup: the column matches and the loop got
\* there, no earlier column having matched and hit the break
\* the first column of the lookup, whatever its name
assign_first_column(patterns, lookup, k) == k = 1

assign_field(patterns, lookup, k) ==
    /\ matches_any(patterns, lookup[k][1])
    /\ \A m \in 1..(k - 1) : ~matches_any(patterns, lookup[m][1])

\* one `for schema_field, patterns in <table>.items()` loop over the lookup:
\* its assignments `mappings[actual_col] = schema_field`, in the order made
map_table(patterns_table, lookup) ==
    LET width == Len(lookup)
        steps == list([n \in 1..(Len(patterns_table) * width) |->
                          <<((n - 1) \div width) + 1, ((n - 1) % width) + 1>>])
        assigning(step) == assign_field(patterns_table[step[1]][2], lookup, step[2])
        made == SelectSeq(steps, assigning)
    IN  list([n \in 1..Len(made) |->
                <<lookup[made[n][2]][2], patterns_table[made[n][1]][1]>>])

\* the assignments mappings[actual_col] = schema_field of the three loops, in
\* the order they are made
pattern_assignments(lookup) ==
    map_table(name_patterns, lookup)
        \o map_table(address_patterns, lookup)
        \o map_table(mailing_patterns, lookup)

\* the identity table alone
name_pattern_mappings(lookup) ==
    dict_of(map_table(name_patterns, lookup))

pattern_mappings(lookup) == dict_of(pattern_assignments(lookup))

\* the pattern tables alone
analyze_columns_by_patterns(columns) == pattern_mappings(df_col_lookup(columns))

analyze_columns(columns) ==
    LET lookup == df_col_lookup(columns)
    IN  IF all_key_columns(key_columns_WA, lookup)
        THEN case_sensitive_mappings(state_mappings_WA, lookup)
        ELSE IF all_key_columns(key_columns_OR, lookup)
        THEN case_sensitive_mappings(state_mappings_OR, lookup)
        ELSE IF all_key_columns(key_columns_CA, lookup)
        THEN case_sensitive_mappings(state_mappings_CA, lookup)
        ELSE pattern_mappings(lookup)

-----------------------------------------------------------------------------
(* Address Field Composer: analyze_address_fields *)

combined_address_patterns ==
    << <<"a","d","d","r","e","s","s","_","f","u","l","l">>,
       <<"f","u","l","l","_","a","d","d","r","e","s","s">>,
       <<"c","o","m","p","l","e","t","e","_","a","d","d","r","e","s","s">> >>

\* the component of the first entry of address_patterns that matches, or "" 
RECURSIVE component_of(_, _)
component_of(col_lower, patterns_table) ==
    IF patterns_table = <<>> THEN ""
    ELSE IF matches_any(Head(patterns_table)[2], col_lower) THEN Head(patterns_table)[1]
    ELSE component_of(col_lower, Tail(patterns_table))

\* the loop that fills column_component_map
column_component_map(column_names) ==
    LET has_component(col) ==
            /\ ~matches_any(composer_mailing_patterns, lower(col))
            /\ ~matches_any(voter_id_patterns, lower(col))
            /\ component_of(lower(col), composer_address_patterns) # ""
        kept == SelectSeq(column_names, has_component)
    IN  dict_of([k \in 1..Len(kept) |->
                    <<kept[k], component_of(lower(kept[k]), composer_address_patterns)>>])

\* the columns of the map whose component is `component`, in the map's order
RECURSIVE columns_of_component(_, _)
columns_of_component(component_map, component) ==
    IF component_map = <<>> THEN <<>>
    ELSE (IF Head(component_map)[2] = component THEN <<Head(component_map)[1]>> ELSE <<>>)
         \o columns_of_component(Tail(component_map), component)

\* the columns of the map in the map's own order
header_order_fields(order, component_map) == dict_keys(component_map)

\* the loop over address_component_order that fills address_fields
RECURSIVE ordered_address_fields(_, _)
ordered_address_fields(order, component_map) ==
    IF order = <<>> THEN <<>>
    ELSE columns_of_component(component_map, Head(order))
         \o ordered_address_fields(Tail(order), component_map)

\* the component loops alone
analyze_address_components(column_names) ==
    [fields    |-> ordered_address_fields(address_component_order,
                       column_component_map(column_names)),
     separator |-> <<" ">>]

analyze_address_fields(column_names) ==
    LET combined == {k \in 1..Len(column_names) :
                        matches_any(combined_address_patterns, lower(column_names[k]))}
    IN  IF combined # {}
        THEN [fields    |-> <<column_names[CHOOSE k \in combined : \A m \in combined : k <= m]>>,
              separator |-> <<" ">>]
        ELSE [fields    |-> ordered_address_fields(address_component_order,
                                column_component_map(column_names)),
              separator |-> <<" ">>]

\* [col.strip() for col in df.columns]
strip_columns(columns) == [k \in 1..Len(columns) |-> strip(columns[k])]

NoConfig == [state_code |-> "none"]

\* the config dictionary onboard_state writes for a sample file with this header
onboard_config(columns) ==
    LET column_names == strip_columns(columns)
    IN  [state_code      |-> "XX",
         column_mappings |-> analyze_columns(column_names),
         address_fields  |-> analyze_address_fields(column_names),
         column_names    |-> column_names]

-----------------------------------------------------------------------------
(* pandas frames: [columns |-> names, rows |-> one sequence of cells per row]; *)
(* a cell is a string or NaN                                                   *)

NaN == <<"NaN">>

notna(val) == val # NaN

\* Series.fillna('')
fillna(series) == [r \in 1..Len(series) |-> IF series[r] = NaN THEN <<>> ELSE series[r]]

\* df[col]
df_column(frame, col) ==
    LET k == CHOOSE k \in 1..Len(frame.columns) : frame.columns[k] = col
    IN  [r \in 1..Len(frame.rows) |-> frame.rows[r][k]]

\* series.str.strip().any()
any_stripped(series) == \E r \in 1..Len(series) : strip(series[r]) # <<>>

\* series.notna().any()
any_notna(series) == \E r \in 1..Len(series) : notna(series[r])

\* [str(val) for val in x if pd.notna(val) and str(val).strip()]
RECURSIVE non_blank(_)
non_blank(vals) ==
    IF vals = <<>> THEN <<>>
    ELSE (IF notna(Head(vals)) /\ strip(Head(vals)) # <<>> THEN <<Head(vals)>> ELSE <<>>)
         \o non_blank(Tail(vals))

\* pd.DataFrame(parts).T.apply(lambda x: separator.join(...), axis=1)
join_parts(parts, separator, nrows) ==
    [r \in 1..nrows |-> join(separator, non_blank([k \in 1..Len(parts) |-> parts[k][r]]))]

-----------------------------------------------------------------------------
(* import_data: the canonical frame, an ordered dict field -> series *)

\* import_to_sqlite.py:173-269: the explicit assignments of the Washington branch
wa_direct_columns ==
  << <<<<"s","t","a","t","e","v","o","t","e","r","i","d">>, "voter_id">>,
     <<<<"f","n","a","m","e">>, "first_name">>,
     <<<<"l","n","a","m","e">>, "last_name">>,
     <<<<"m","n","a","m","e">>, "middle_name">>,
     <<<<"b","i","r","t","h","y","e","a","r">>, "birth_year">>,
     <<<<"g","e","n","d","e","r">>, "gender">>,
     <<<<"n","a","m","e","s","u","f","f","i","x">>, "suffix">>,
     <<<<"c","o","u","n","t","y","c","o","d","e">>, "county">>,
     <<<<"p","r","e","c","i","n","c","t","c","o","d","e">>, "precinct">>,
     <<<<"l","e","g","i","s","l","a","t","i","v","e","d","i","s","t","r","i","c","t">>, "legislative_district">>,
     <<<<"c","o","n","g","r","e","s","s","i","o","n","a","l","d","i","s","t","r","i","c","t">>, "congressional_district">>,
     <<<<"r","e","g","i","s","t","r","a","t","i","o","n","d","a","t","e">>, "registration_date">>,
     <<<<"l","a","s","t","v","o","t","e","d">>, "last_voted_date">>,
     <<<<"s","t","a","t","u","s","c","o","d","e">>, "status_code">>,
     <<<<"r","e","g","s","t","n","u","m">>, "address_street_number">>,
     <<<<"r","e","g","s","t","f","r","a","c">>, "address_street_fraction">>,
     <<<<"r","e","g","s","t","p","r","e","d","i","r","e","c","t","i","o","n">>, "address_street_pre_direction">>,
     <<<<"r","e","g","s","t","n","a","m","e">>, "address_street_name">>,
     <<<<"r","e","g","s","t","t","y","p","e">>, "address_street_type">>,
     <<<<"r","e","g","u","n","i","t","t","y","p","e">>, "address_unit_type">>,
     <<<<"r","e","g","s","t","p","o","s","t","d","i","r","e","c","t","i","o","n">>, "address_street_post_direction">>,
     <<<<"r","e","g","s","t","u","n","i","t","n","u","m">>, "address_unit_number">>,
     <<<<"r","e","g","c","i","t","y">>, "city">>,
     <<<<"r","e","g","s","t","a","t","e">>, "state">>,
     <<<<"r","e","g","z","i","p","c","o","d","e">>, "zip_code">>,
     <<<<"m","a","i","l","1">>, "mailing_address">>,
     <<<<"m","a","i","l","2">>, "mailing_address2">>,
     <<<<"m","a","i","l","3">>, "mailing_address3">>,
     <<<<"m","a","i","l","c","i","t","y">>, "mailing_city">>,
     <<<<"m","a","i","l","s","t","a","t","e">>, "mailing_state">>,
     <<<<"m","a","i","l","z","i","p">>, "mailing_zip">>,
     <<<<"m","a","i","l","c","o","u","n","t","r","y">>, "mailing_country">> >>

\* import_to_sqlite.py:272-321: <<column, appended only if some row is non-blank>>
wa_address_components ==
  << <<<<"r","e","g","s","t","n","u","m">>, FALSE>>,
     <<<<"r","e","g","s","t","f","r","a","c">>, TRUE>>,
     <<<<"r","e","g","s","t","p","r","e","d","i","r","e","c","t","i","o","n">>, TRUE>>,
     <<<<"r","e","g","s","t","n","a","m","e">>, FALSE>>,
     <<<<"r","e","g","s","t","t","y","p","e">>, FALSE>>,
     <<<<"r","e","g","s","t","p","o","s","t","d","i","r","e","c","t","i","o","n">>, TRUE>>,
     <<<<"r","e","g","u","n","i","t","t","y","p","e">>, TRUE>>,
     <<<<"r","e","g","s","t","u","n","i","t","n","u","m">>, TRUE>>,
     <<<<"r","e","g","c","i","t","y">>, TRUE>>,
     <<<<"r","e","g","s","t","a","t","e">>, TRUE>>,
     <<<<"r","e","g","z","i","p","c","o","d","e">>, TRUE>> >>

\* VoterSchema.required_fields
required_fields ==
    { "first_name", "last_name", "birth_date", "registration_date", "address", "city",
      "state", "zip_code" }

\* a table that keeps the address in one column, without the parsed parts
unparsed_address_columns ==
  { "id", "first_name", "last_name", "middle_name", "suffix", "birth_year", "birthday", "registration_date", "address", "city", "state", "zip_code", "gender", "party", "precinct", "precinct_part", "county", "voter_id", "legislative_district", "congressional_district", "last_voted_date", "status_code", "mailing_address", "mailing_address2", "mailing_address3", "mailing_city", "mailing_state", "mailing_zip", "mailing_country", "created_at" }

\* import_to_sqlite.py:101-142: the columns of CREATE TABLE
table_columns ==
  { "id", "first_name", "last_name", "middle_name", "suffix", "birth_year", "birthday", "registration_date", "address", "address_street_number", "address_street_fraction", "address_street_pre_direction", "address_street_name", "address_street_type", "address_unit_type", "address_street_post_direction", "address_unit_number", "city", "state", "zip_code", "gender", "party", "precinct", "precinct_part", "county", "voter_id", "legislative_district", "congressional_district", "last_voted_date", "status_code", "mailing_address", "mailing_address2", "mailing_address3", "mailing_city", "mailing_state", "mailing_zip", "mailing_country", "created_at" }


\* import_to_sqlite.py:171
is_wa_frame(lookup) ==
    /\ dict_has(lookup, <<"s","t","a","t","e","v","o","t","e","r","i","d">>)
    /\ dict_has(lookup, <<"f","n","a","m","e">>)
    /\ dict_has(lookup, <<"l","n","a","m","e">>)

\* the assignments df_mapped[field] = df[df_col_lookup[key]] of lines 173-269
wa_map_columns(direct, frame, lookup) ==
    LET in_file(entry) == dict_has(lookup, entry[1])
        found == SelectSeq(direct, in_file)
    IN  dict_of([k \in 1..Len(found) |->
                    <<found[k][2], df_column(frame, dict_get(lookup, found[k][1]))>>])

\* address_components of lines 272-321: a component is appended when its
\* column is in the file and, for the conditional ones, has a non-blank value
wa_components(components, frame, lookup) ==
    LET series(entry)   == fillna(df_column(frame, dict_get(lookup, entry[1])))
        appended(entry) == /\ dict_has(lookup, entry[1])
                           /\ (~entry[2] \/ any_stripped(series(entry)))
        found == SelectSeq(components, appended)
    IN  list([k \in 1..Len(found) |-> series(found[k])])

\* import_to_sqlite.py:171-328
wa_mapped(frame, lookup) ==
    LET mapped             == wa_map_columns(wa_direct_columns, frame, lookup)
        address_components == wa_components(wa_address_components, frame, lookup)
    IN  IF address_components # <<>>
        THEN dict_set(mapped, "address",
                      join_parts(address_components, <<" ">>, Len(frame.rows)))
        ELSE mapped

\* schema_field.startswith('address_') over the names of the destination columns
address_prefixed ==
    { "address_street_number", "address_street_fraction", "address_street_pre_direction",
      "address_street_name", "address_street_type", "address_unit_type",
      "address_street_post_direction", "address_unit_number" }

\* import_to_sqlite.py:331-340
map_columns(mappings, frame, lookup) ==
    LET direct(entry) == /\ entry[2] \notin address_prefixed
                         /\ dict_has(lookup, lower(entry[1]))
                         /\ dict_get(lookup, lower(entry[1])) # <<>>
        found == SelectSeq(mappings, direct)
    IN  dict_of([k \in 1..Len(found) |->
                    <<found[k][2], df_column(frame, dict_get(lookup, lower(found[k][1])))>>])

\* import_to_sqlite.py:364-367: the assignments df_mapped[schema_field] = df[actual_col]
\* for the address_ fields of the mappings whose raw column is `field`
map_address_field(mappings, field_lower, series) ==
    LET component(entry) == lower(entry[1]) = field_lower /\ entry[2] \in address_prefixed
        found == SelectSeq(mappings, component)
    IN  list([k \in 1..Len(found) |-> <<found[k][2], series>>])

\* import_to_sqlite.py:359-370: <<df_mapped, address_parts>> after the loop over fields
RECURSIVE address_loop(_, _, _, _, _)
address_loop(fields, mappings, frame, lookup, mapped) ==
    IF fields = <<>> THEN <<mapped, <<>>>>
    ELSE LET before      == address_loop(Front(fields), mappings, frame, lookup, mapped)
             field_lower == lower(Last(fields))
             found       == dict_has(lookup, field_lower)
             series      == df_column(frame, dict_get(lookup, field_lower))
         IN  IF found
             THEN << dict_of(before[1] \o map_address_field(mappings, field_lower, series)),
                     IF any_notna(series) THEN Append(before[2], fillna(series)) ELSE before[2] >>
             ELSE before

\* import_to_sqlite.py:380-396: f"{address}{glue}{value}" where the value is not blank
append_field(mapped, field, glue) ==
    IF dict_has(mapped, field) /\ any_notna(dict_get(mapped, field))
    THEN LET address == dict_get(mapped, "address")
             series  == dict_get(mapped, field)
         IN  dict_set(mapped, "address",
                 [r \in 1..Len(address) |->
                     IF notna(series[r]) /\ strip(series[r]) # <<>>
                     THEN address[r] \o glue \o series[r]
                     ELSE address[r]])
    ELSE mapped

\* import_to_sqlite.py:343-396
with_address(mapped, mappings, address_fields, frame, lookup) ==
    LET fields    == address_fields.fields
        separator == address_fields.separator
    IN  IF Len(fields) = 1
        THEN IF dict_has(lookup, lower(fields[1]))
             THEN dict_set(mapped, "address", df_column(frame, dict_get(lookup, lower(fields[1]))))
             ELSE mapped
        ELSE LET looped == address_loop(fields, mappings, frame, lookup, mapped)
             IN  IF looped[2] # <<>>
                 THEN append_field(
                          append_field(
                              append_field(
                                  dict_set(looped[1], "address",
                                           join_parts(looped[2], separator, Len(frame.rows))),
                                  "city", <<",", " ">>),
                              "state", <<",", " ">>),
                          "zip_code", <<" ">>)
                 ELSE looped[1]

\* import_to_sqlite.py:163-396: df_mapped
map_frame(frame, mappings, address_fields) ==
    LET lookup == df_col_lookup(frame.columns)
    IN  IF is_wa_frame(lookup)
        THEN wa_mapped(frame, lookup)
        ELSE with_address(map_columns(mappings, frame, lookup),
                          mappings, address_fields, frame, lookup)

\* len(df_mapped): a frame without columns has no rows
mapped_len(mapped) == IF mapped = <<>> THEN 0 ELSE Len(mapped[1][2])

\* the record to_sql inserts for row r: a NaN cell is a NULL, and a NULL column
\* is left out of the record
sql_row(mapped, r) ==
    LET present == {k \in 1..Len(mapped) : notna(mapped[k][2][r])}
    IN  [field \in {mapped[k][1] : k \in present} |->
            mapped[CHOOSE k \in present : mapped[k][1] = field][2][r]]

sql_rows(mapped) == [r \in 1..mapped_len(mapped) |-> sql_row(mapped, r)]

\* import_to_sqlite.py:517-552: <<canonical field, column of the file>>, shifted as in the source
wa_test_columns ==
  << <<"first_name", <<"S","t","a","t","e","V","o","t","e","r","I","D">>>>,
     <<"middle_name", <<"F","N","a","m","e">>>>,
     <<"last_name", <<"M","N","a","m","e">>>>,
     <<"suffix", <<"L","N","a","m","e">>>>,
     <<"birth_year", <<"N","a","m","e","S","u","f","f","i","x">>>>,
     <<"gender", <<"B","i","r","t","h","y","e","a","r">>>>,
     <<"address_street_number", <<"G","e","n","d","e","r">>>>,
     <<"address_street_fraction", <<"R","e","g","S","t","N","u","m">>>>,
     <<"address_street_name", <<"R","e","g","S","t","F","r","a","c">>>>,
     <<"address_street_type", <<"R","e","g","S","t","N","a","m","e">>>>,
     <<"address_unit_type", <<"R","e","g","S","t","T","y","p","e">>>>,
     <<"address_street_pre_direction", <<"R","e","g","U","n","i","t","T","y","p","e">>>>,
     <<"address_street_post_direction", <<"R","e","g","S","t","P","r","e","D","i","r","e","c","t","i","o","n">>>>,
     <<"address_unit_number", <<"R","e","g","S","t","P","o","s","t","D","i","r","e","c","t","i","o","n">>>>,
     <<"city", <<"R","e","g","S","t","U","n","i","t","N","u","m">>>>,
     <<"state", <<"R","e","g","C","i","t","y">>>>,
     <<"zip_code", <<"R","e","g","S","t","a","t","e">>>>,
     <<"county", <<"R","e","g","Z","i","p","C","o","d","e">>>>,
     <<"precinct", <<"C","o","u","n","t","y","C","o","d","e">>>>,
     <<"precinct_part", <<"P","r","e","c","i","n","c","t","C","o","d","e">>>>,
     <<"legislative_district", <<"P","r","e","c","i","n","c","t","P","a","r","t">>>>,
     <<"congressional_district", <<"L","e","g","i","s","l","a","t","i","v","e","D","i","s","t","r","i","c","t">>>>,
     <<"mailing_address", <<"C","o","n","g","r","e","s","s","i","o","n","a","l","D","i","s","t","r","i","c","t">>>>,
     <<"mailing_address2", <<"M","a","i","l","1">>>>,
     <<"mailing_address3", <<"M","a","i","l","2">>>>,
     <<"mailing_city", <<"M","a","i","l","3">>>>,
     <<"mailing_state", <<"M","a","i","l","C","i","t","y">>>>,
     <<"mailing_zip", <<"M","a","i","l","Z","i","p">>>>,
     <<"mailing_country", <<"M","a","i","l","S","t","a","t","e">>>>,
     <<"registration_date", <<"M","a","i","l","C","o","u","n","t","r","y">>>>,
     <<"last_voted_date", <<"R","e","g","i","s","t","r","a","t","i","o","n","d","a","t","e">>>>,
     <<"status_code", <<"L","a","s","t","V","o","t","e","d">>>> >>

\* import_to_sqlite.py:559-590: <<canonical field, appended only if some row is non-blank>>
wa_test_address_components ==
  << <<"address_street_number", FALSE>>, <<"address_street_fraction", TRUE>>,
     <<"address_street_pre_direction", TRUE>>, <<"address_street_name", FALSE>>,
     <<"address_street_type", FALSE>>, <<"address_unit_type", TRUE>>,
     <<"address_street_post_direction", TRUE>>, <<"address_unit_number", TRUE>>,
     <<"city", TRUE>>, <<"state", TRUE>>, <<"zip_code", TRUE>> >>

decimal_digits == <<"0","1","2","3","4","5","6","7","8","9">>

\* str(n) for a natural number
RECURSIVE int_to_str(_)
int_to_str(n) ==
    IF n < 10 THEN <<decimal_digits[n + 1]>>
    ELSE int_to_str(n \div 10) \o <<decimal_digits[(n % 10) + 1]>>

\* df['X'] raises KeyError unless the file has every column of the special case
wa_test_has_columns(frame) ==
    \A k \in 1..Len(wa_test_columns) :
        \E c \in 1..Len(frame.columns) : frame.columns[c] = wa_test_columns[k][2]

\* df_mapped[field] = df[column] for the pairs of lines 517-552, after voter_id
wa_test_map_columns(shifted, frame, mapped) ==
    dict_of(mapped \o [k \in 1..Len(shifted) |->
                          <<shifted[k][1], df_column(frame, shifted[k][2])>>])

\* address_components of lines 558-590
wa_test_components(components, mapped) ==
    LET series(entry)   == fillna(dict_get(mapped, entry[1]))
        appended(entry) == ~entry[2] \/ any_stripped(series(entry))
        found == SelectSeq(components, appended)
    IN  list([k \in 1..Len(found) |-> series(found[k])])

\* import_main, lines 513-595: df_mapped of the special case; voter_id is
\* df.index + 10001, stored in the TEXT column as its decimal digits
wa_test_mapped(frame) ==
    LET ids    == [r \in 1..Len(frame.rows) |-> int_to_str(r - 1 + 10001)]
        mapped == wa_test_map_columns(wa_test_columns, frame, << <<"voter_id", ids>> >>)
    IN  dict_set(mapped, "address",
                 join_parts(wa_test_components(wa_test_address_components, mapped),
                            <<" ">>, Len(frame.rows)))

-----------------------------------------------------------------------------
(* The SQLite sink: create_table and DataFrame.to_sql(if_exists='append') *)

\* the value of the voter_id column of a stored row; NaN stands for NULL
row_voter_id(row) == IF "voter_id" \in DOMAIN row THEN row["voter_id"] ELSE NaN

\* a constraint that looks at the rows of the statement only
unique_in_chunk(tbl, chunk) ==
    \A p, q \in 1..Len(chunk) :
        (p < q /\ notna(row_voter_id(chunk[q]))) => row_voter_id(chunk[p]) # row_voter_id(chunk[q])

\* voter_id TEXT UNIQUE: no non-NULL voter_id of the chunk is in the table
\* or twice in the chunk
unique_constraint_ok(tbl, chunk) ==
    LET all == tbl \o chunk
    IN  \A p \in 1..Len(all) : \A q \in (Len(tbl) + 1)..Len(all) :
            (p < q /\ notna(row_voter_id(all[q]))) => row_voter_id(all[p]) # row_voter_id(all[q])

\* a sink that commits every INSERT of the statement on its own: the rows
\* before the first rejected one stay in the table
to_sql_autocommit(tbl, chunk, columns) ==
    IF \E k \in 1..Len(columns) : columns[k] \notin table_columns
    THEN [table |-> tbl, error |-> "OperationalError"]
    ELSE LET accepted == { n \in 0..Len(chunk) : unique_constraint_ok(tbl, SubSeq(chunk, 1, n)) }
             last == CHOOSE n \in accepted : \A m \in accepted : m <= n
         IN  [table |-> tbl \o SubSeq(chunk, 1, last),
              error |-> IF last = Len(chunk) THEN "none" ELSE "IntegrityError"]

\* chunk.to_sql(table_name, conn, if_exists='append', index=False): one
\* transaction, committed when every INSERT succeeded and rolled back otherwise
to_sql(tbl, chunk, columns) ==
    IF \E k \in 1..Len(columns) : columns[k] \notin table_columns
    THEN [table |-> tbl, error |-> "OperationalError"]
    ELSE IF ~unique_constraint_ok(tbl, chunk)
    THEN [table |-> tbl, error |-> "IntegrityError"]
    ELSE [table |-> tbl \o chunk, error |-> "none"]

\* frame.iloc[start:stop]
iloc(rows, start, stop) ==
    SubSeq(rows, start + 1, IF stop < Len(rows) THEN stop ELSE Len(rows))

-----------------------------------------------------------------------------
(* Inputs *)

\* rows of a data file
MaxRows == 2
\* import_data sets chunk_size = 1000; the chunk sizes 1..MaxChunkSize stand
\* for it, so that a batch of MaxRows rows spans one chunk or several
MaxChunkSize == 2
\* invocations of import_main against the same database
MaxRuns == 2
\* columns of a sample file given to onboard_state
\* columns a sample file has besides the key columns of a state format
MaxExtraColumns == 2

MaxHeaderLen == 3

GenericHeader == << <<"V","o","t","e","r","I","D">>, <<"S","u","r","n","a","m","e">> >>

\* identifiers differing only in case are different identifiers
IdValues == { <<"A">>, <<"a">>, NaN }

GenericRows == { <<id, <<"D","o","e">>>> : id \in IdValues }

GenericFrames ==
    { [columns |-> GenericHeader, rows |-> rows] :
        rows \in UNION { [1..n -> GenericRows] : n \in 0..MaxRows } }

WAHeader ==
    << <<"S","t","a","t","e","V","o","t","e","r","I","D">>, <<"F","N","a","m","e">>,
       <<"L","N","a","m","e">>, <<"R","e","g","S","t","N","u","m">>,
       <<"R","e","g","S","t","N","a","m","e">>, <<"R","e","g","S","t","T","y","p","e">>,
       <<"R","e","g","C","i","t","y">>, <<"R","e","g","S","t","a","t","e">>,
       <<"R","e","g","Z","i","p","C","o","d","e">> >>

WARow ==
    << <<"W","1">>, <<"J","o","h","n">>, <<"S","m","i","t","h">>, <<"1","2","3">>,
       <<"M","a","i","n">>, <<"S","t">>, <<"S","e","a","t","t","l","e">>, <<"W","A">>,
       <<"9","8","1","0","1">> >>

WAFrame == [columns |-> WAHeader, rows |-> <<WARow>>]

\* a file with every column of the Washington extract, as the test fixture has
WAFullHeader ==
    << <<"S","t","a","t","e","V","o","t","e","r","I","D">>, <<"F","N","a","m","e">>,
       <<"M","N","a","m","e">>, <<"L","N","a","m","e">>,
       <<"N","a","m","e","S","u","f","f","i","x">>, <<"B","i","r","t","h","y","e","a","r">>,
       <<"G","e","n","d","e","r">>, <<"R","e","g","S","t","N","u","m">>,
       <<"R","e","g","S","t","F","r","a","c">>, <<"R","e","g","S","t","N","a","m","e">>,
       <<"R","e","g","S","t","T","y","p","e">>, <<"R","e","g","U","n","i","t","T","y","p","e">>,
       <<"R","e","g","S","t","P","r","e","D","i","r","e","c","t","i","o","n">>,
       <<"R","e","g","S","t","P","o","s","t","D","i","r","e","c","t","i","o","n">>,
       <<"R","e","g","S","t","U","n","i","t","N","u","m">>, <<"R","e","g","C","i","t","y">>,
       <<"R","e","g","S","t","a","t","e">>, <<"R","e","g","Z","i","p","C","o","d","e">>,
       <<"C","o","u","n","t","y","C","o","d","e">>,
       <<"P","r","e","c","i","n","c","t","C","o","d","e">>,
       <<"P","r","e","c","i","n","c","t","P","a","r","t">>,
       <<"L","e","g","i","s","l","a","t","i","v","e","D","i","s","t","r","i","c","t">>,
       <<"C","o","n","g","r","e","s","s","i","o","n","a","l","D","i","s","t","r","i","c","t">>,
       <<"M","a","i","l","1">>, <<"M","a","i","l","2">>, <<"M","a","i","l","3">>,
       <<"M","a","i","l","C","i","t","y">>, <<"M","a","i","l","Z","i","p">>,
       <<"M","a","i","l","S","t","a","t","e">>, <<"M","a","i","l","C","o","u","n","t","r","y">>,
       <<"R","e","g","i","s","t","r","a","t","i","o","n","d","a","t","e">>,
       <<"L","a","s","t","V","o","t","e","d">> >>

WAFullRow ==
    << <<"J","O","H","N">>, <<"A">>, <<"S","M","I","T","H">>, NaN, NaN, NaN, <<"1","2","3">>,
       NaN, <<"M","a","i","n">>, <<"S","t">>, NaN, NaN, NaN, NaN,
       <<"S","e","a","t","t","l","e">>, <<"W","A">>, <<"9","8","1","0","1">>, NaN, NaN, NaN,
       NaN, NaN, NaN, NaN, NaN, NaN, NaN, NaN, NaN, NaN, NaN, NaN >>

\* files of that layout with 1..MaxRows rows, the rows differing in the first cell
WAFullFrames ==
    { [columns |-> WAFullHeader,
       rows    |-> list([r \in 1..n |-> [WAFullRow EXCEPT ![1] = <<"J","O","H","N">> \o int_to_str(r)]])] :
        n \in 1..MaxRows }

PlainName == <<"v","o","t","e","r","s",".","c","s","v">>
WATestName == <<"w","a","_","t","e","s","t","_","d","a","t","a",".","c","s","v">>

\* the data files import_main is given: args.file and the frame read from it
ImportFiles ==
    { [name |-> PlainName, frame |-> frame] : frame \in GenericFrames \cup {WAFrame} }
    \cup { [name |-> WATestName, frame |-> frame] : frame \in WAFullFrames \cup {WAFrame} }

\* the headers of the sample files onboard_state is given
OnboardHeaders == {GenericHeader, WAHeader}

NoFrame == [columns |-> <<>>, rows |-> <<>>]

\* column names of sample files given to the resolver and the composer
ColumnNames ==
    { <<"I","D">>, <<"i","d">>, <<"V","o","t","e","r","I","d">>,
      <<"L","a","s","t","N","a","m","e">>, <<"B","i","r","t","h","d","a","y">>,
      <<"C","i","t","y">>, <<"M","a","i","l","C","i","t","y">>,
      <<"A","D","D","R","E","S","S","_","F","U","L","L">> }

\* headers: up to MaxHeaderLen different column names, in any order
Headers ==
    { h \in UNION { [1..n -> ColumnNames] : n \in 0..MaxHeaderLen } :
        \A p, q \in 1..Len(h) : p # q => h[p] # h[q] }

\* the profiles onboard_state writes for sample files with these headers
profiles_of(headers) == { onboard_config(columns) : columns \in headers }

SampleProfiles == profiles_of(OnboardHeaders)

\* a file of another state with a street number, a unit number and a city
AddressHeader ==
    << <<"S","t","N","u","m">>, <<"U","n","i","t","N","u","m">>, <<"C","i","t","y">> >>

\* a row with a unit number, a row with a blank unit number and no city, and
\* a row without any address value
AddressRows ==
    { << <<"1","2">>, <<"4">>, <<"K","e","n","t">> >>,
      << <<"1","2">>, <<" ">>, NaN >>,
      << NaN, NaN, NaN >> }

AddressFrames ==
    { [columns |-> AddressHeader, rows |-> rows] :
        rows \in UNION { [1..n -> AddressRows] : n \in 1..MaxRows } }

AddressFiles == { [name |-> PlainName, frame |-> frame] : frame \in AddressFrames }

AddressSampleProfiles == profiles_of({AddressHeader})

-----------------------------------------------------------------------------
(* The state machine *)

\* df_mapped of import_data, for each profile on disk and each data file
mapped_frames ==
    [profile \in SampleProfiles \cup AddressSampleProfiles,
     frame \in {file.frame : file \in ImportFiles \cup AddressFiles} |->
        map_frame(frame, profile.column_mappings, profile.address_fields)]

\* no other process is importing
NoPeer == [pc |-> "idle", df_mapped |-> <<>>, i |-> 0, error |-> "none"]

Init ==
    /\ config = NoConfig
    /\ tableExists = FALSE
    /\ table = <<>>
    /\ pc = "idle"
    /\ force = FALSE
    /\ df = NoFrame
    /\ df_mapped = <<>>
    /\ i = 0
    /\ chunk_size \in 1..MaxChunkSize
    /\ stdout = <<>>
    /\ error = "none"
    /\ tableBefore = <<>>
    /\ runs = 0
    /\ peer = NoPeer

\* onboard_state: write the profile computed from the header of a sample file
OnboardState(profile) ==
    /\ config' = profile
    /\ UNCHANGED <<tableExists, table, pc, force, df, df_mapped, i, chunk_size,
                   stdout, error, tableBefore, runs, peer>>

\* an invocation of import_main may start when none is in progress
CanStart == pc # "importing" /\ runs < MaxRuns

\* the table is created before the profile is opened
ImportMain_NoConfigAfterCreate(f) ==
    /\ CanStart
    /\ config = NoConfig
    /\ pc' = "raised"
    /\ error' = "FileNotFoundError"
    /\ force' = f
    /\ df' = NoFrame
    /\ df_mapped' = <<>>
    /\ i' = 0
    /\ stdout' = <<>>
    /\ tableBefore' = table
    /\ runs' = runs + 1
    /\ tableExists' = TRUE
    /\ UNCHANGED <<config, table, chunk_size, peer>>

\* import_main, lines 475-476: open(config_file) raises, nothing else is done
ImportMain_NoConfig(f) ==
    /\ CanStart
    /\ config = NoConfig
    /\ pc' = "raised"
    /\ error' = "FileNotFoundError"
    /\ force' = f
    /\ df' = NoFrame
    /\ df_mapped' = <<>>
    /\ i' = 0
    /\ stdout' = <<>>
    /\ tableBefore' = table
    /\ runs' = runs + 1
    /\ UNCHANGED <<config, tableExists, table, chunk_size, peer>>

\* the existence check made after the data file has been read
ImportMain_TableExistsAfterRead ==
    /\ CanStart
    /\ config # NoConfig
    /\ tableExists
    /\ pc' = "returned1"
    /\ error' = "none"
    /\ force' = FALSE
    /\ \E file \in ImportFiles : df' = file.frame
    /\ df_mapped' = <<>>
    /\ i' = 0
    /\ stdout' = <<[msg |-> "Table already exists. Use --force to overwrite."]>>
    /\ tableBefore' = table
    /\ runs' = runs + 1
    /\ UNCHANGED <<config, tableExists, table, chunk_size, peer>>

\* import_main, lines 481-487: the table exists and --force is not given
ImportMain_TableExists ==
    /\ CanStart
    /\ config # NoConfig
    /\ tableExists
    /\ pc' = "returned1"
    /\ error' = "none"
    /\ force' = FALSE
    /\ df' = NoFrame
    /\ df_mapped' = <<>>
    /\ i' = 0
    /\ stdout' = <<[msg |-> "Table already exists. Use --force to overwrite."]>>
    /\ tableBefore' = table
    /\ runs' = runs + 1
    /\ UNCHANGED <<config, tableExists, table, chunk_size, peer>>

\* 'wa_test_data.csv' in args.file
is_wa_test(name) == is_substring(<<"w","a","_","t","e","s","t","_","d","a","t","a",".","c","s","v">>, name)

\* import_main, lines 606-615, and import_data up to the chunk loop: read the
\* file, CREATE TABLE IF NOT EXISTS, build df_mapped
ImportMain_ImportData(file, f) ==
    /\ CanStart
    /\ config # NoConfig
    /\ ~tableExists \/ f
    /\ ~is_wa_test(file.name)
    /\ df_mapped' = mapped_frames[config, file.frame]
    /\ pc' = "importing"
    /\ error' = "none"
    /\ force' = f
    /\ df' = file.frame
    /\ tableExists' = TRUE
    /\ i' = 0
    /\ stdout' = <<>>
    /\ tableBefore' = table
    /\ runs' = runs + 1
    /\ UNCHANGED <<config, table, chunk_size, peer>>

\* import_main, lines 489-604: the special case of the Washington test file.
\* CREATE TABLE IF NOT EXISTS, then one to_sql of the whole shifted frame; any
\* exception (a KeyError for a missing column, an error of to_sql) is printed
\* and the invocation continues with read_data_file and import_data
ImportMain_WATest(file, f) ==
    /\ CanStart
    /\ config # NoConfig
    /\ ~tableExists \/ f
    /\ is_wa_test(file.name)
    /\ LET shifted == wa_test_mapped(file.frame)
           result  == to_sql(table, sql_rows(shifted), dict_keys(shifted))
       IN  IF wa_test_has_columns(file.frame) /\ result.error = "none"
           THEN /\ table' = result.table
                /\ df_mapped' = shifted
                /\ stdout' = <<[msg |-> "Successfully imported data"]>>
                /\ pc' = "returned0"
           ELSE /\ table' = IF wa_test_has_columns(file.frame) THEN result.table ELSE table
                /\ df_mapped' = mapped_frames[config, file.frame]
                /\ stdout' = <<[msg |-> "Error importing WA test data"]>>
                /\ pc' = "importing"
    /\ tableExists' = TRUE
    /\ force' = f
    /\ df' = file.frame
    /\ i' = 0
    /\ error' = "none"
    /\ tableBefore' = table
    /\ runs' = runs + 1
    /\ UNCHANGED <<config, chunk_size, peer>>

\* one iteration of the chunk loop of import_data, lines 409-412
ImportChunk ==
    /\ pc = "importing"
    /\ i < mapped_len(df_mapped)
    /\ LET chunk  == iloc(sql_rows(df_mapped), i, i + chunk_size)
           result == to_sql(table, chunk, dict_keys(df_mapped))
       IN  IF result.error = "none"
           THEN /\ table' = result.table
                /\ stdout' = Append(stdout, [msg |-> "Imported records", from |-> i,
                                             to |-> i + Len(chunk)])
                /\ i' = i + chunk_size
                /\ UNCHANGED <<pc, error>>
           ELSE /\ table' = result.table
                /\ pc' = "raised"
                /\ error' = result.error
                /\ UNCHANGED <<stdout, i>>
    /\ UNCHANGED <<config, tableExists, force, df, df_mapped, chunk_size, tableBefore,
                   runs, peer>>

\* import_data returns; import_main, lines 617-619
ImportMain_Return ==
    /\ pc = "importing"
    /\ i >= mapped_len(df_mapped)
    /\ pc' = "returned0"
    /\ stdout' = Append(stdout, [msg |-> "Successfully imported data"])
    /\ UNCHANGED <<config, tableExists, table, force, df, df_mapped, i, chunk_size,
                   error, tableBefore, runs, peer>>

Next ==
    \/ \E profile \in SampleProfiles : OnboardState(profile)
    \/ \E f \in BOOLEAN : ImportMain_NoConfig(f)
    \/ ImportMain_TableExists
    \/ \E file \in ImportFiles, f \in BOOLEAN : ImportMain_ImportData(file, f)
    \/ \E file \in ImportFiles, f \in BOOLEAN : ImportMain_WATest(file, f)
    \/ ImportChunk
    \/ ImportMain_Return

Spec == Init /\ [][Next]_vars

-----------------------------------------------------------------------------
(* The resolver and the composer on their own: onboard_state on sample files *)
(* with the headers of Headers                                                *)

HeaderProfiles == profiles_of(Headers)

NextResolver == \E profile \in HeaderProfiles : OnboardState(profile)

SpecResolver == Init /\ [][NextResolver]_vars

-----------------------------------------------------------------------------
(* Properties *)

\* the invocation of import_main has ended
run_ended == pc \in {"returned0", "returned1", "raised"}

\* the voter identifiers of the batch, one per row, as the import maps them
batch_ids ==
    IF dict_has(df_mapped, "voter_id") THEN dict_get(df_mapped, "voter_id") ELSE <<>>

\* the identifiers that two or more rows of the batch carry
duplicated_ids ==
    { batch_ids[p] : p \in { p \in 1..Len(batch_ids) :
                                /\ notna(batch_ids[p])
                                /\ \E q \in 1..Len(batch_ids) :
                                       q # p /\ batch_ids[q] = batch_ids[p] } }

\* the non-null identifiers of the rows of a table
table_ids(tbl) == { row_voter_id(tbl[k]) : k \in 1..Len(tbl) } \ {NaN}

\* C1: after any sequence of import runs against the same table, successful,
\* failed or forced, no two rows of the table have the same non-null voter_id
C1_UniqueVoterId ==
    \A p, q \in 1..Len(table) :
        (p # q /\ notna(row_voter_id(table[p])))
            => row_voter_id(table[p]) # row_voter_id(table[q])

\* a forced second run whose batch has no duplicates of its own has been
\* rejected for an identifier that a row of the table has, and the table
\* holds two identified rows
C1_Witness ==
    /\ runs >= 2
    /\ force
    /\ pc = "raised"
    /\ error = "IntegrityError"
    /\ duplicated_ids = {}
    /\ \E p \in 1..Len(batch_ids) : batch_ids[p] \in table_ids(tableBefore)
    /\ Cardinality(table_ids(table)) >= 2

\* C2: when two or more rows of the batch carry the same voter identifier, the
\* import ends in failure and reports the number of duplicated identifiers
\* together with a sample of them
C2_DuplicatesReported ==
    (run_ended /\ duplicated_ids # {}) =>
        /\ pc # "returned0"
        /\ \E k \in 1..Len(stdout) :
               /\ stdout[k].msg = "Found duplicate voter IDs"
               /\ stdout[k].count = Cardinality(duplicated_ids)
               /\ stdout[k].sample # {}
               /\ stdout[k].sample \subseteq duplicated_ids

\* C3: when the batch carries duplicate voter identifiers, the rows of the
\* table after the run are exactly its rows before the run
C3_DuplicateBatchNotCommitted ==
    (run_ended /\ duplicated_ids # {}) => table = tableBefore

\* C4: in a run that maps a column to voter_id, no append to the table comes
\* before the duplicate check of the whole batch: a step that appends rows
\* is a step of a run whose batch has passed the check
C4_CheckBeforeAppend ==
    [][(table' # table /\ dict_has(df_mapped', "voter_id")) => duplicated_ids' = {}]_vars

\* C5: when rows of the batch collide with identifiers a prior run left in the
\* table, the run goes on to the end: every row whose identifier does not
\* collide is committed, and the violations are reported with a failure
C5_CollisionsAccumulated ==
    (/\ run_ended
     /\ duplicated_ids = {}
     /\ \E p \in 1..Len(batch_ids) : batch_ids[p] \in table_ids(tableBefore)) =>
        /\ \A p \in 1..Len(batch_ids) :
               batch_ids[p] \notin table_ids(tableBefore)
                   => \E k \in 1..Len(table) : table[k] = sql_row(df_mapped, p)
        /\ pc # "returned0"
        /\ \E k \in 1..Len(stdout) :
               /\ stdout[k].msg = "Duplicate voter IDs during import"
               /\ stdout[k].violations =
                      { batch_ids[p] : p \in { p \in 1..Len(batch_ids) :
                                                  batch_ids[p] \in table_ids(tableBefore) } }

\* C6: a successful import of a batch of n rows with pairwise different
\* identifiers into an empty table appends exactly the n rows, in batch
\* order, and every write to the table appends at most chunk_size rows
C6_ChunkedAppend ==
    [][/\ Len(table') - Len(table) <= chunk_size
       /\ (/\ pc' = "returned0"
           /\ tableBefore' = <<>>
           /\ dict_has(df_mapped', "voter_id")
           /\ duplicated_ids' = {})
              => (table' = sql_rows(df_mapped') /\ Len(table') = Len(df'.rows))]_vars

\* C7: a successful forced run leaves exactly the rows of that run in the
\* table, the table having been dropped and recreated; a run without the
\* force flag removes no row that was in the table
C7_ForceRecreates ==
    /\ (pc = "returned0" /\ force) => table = sql_rows(df_mapped)
    /\ (run_ended /\ ~force) =>
           (Len(tableBefore) <= Len(table) /\ SubSeq(table, 1, Len(tableBefore)) = tableBefore)

\* C8: for the header StateVoterID, FName, LName, RegStNum, RegStName,
\* RegStType, RegCity, RegState, RegZipCode the resolver maps StateVoterID to
\* voter_id, FName to first_name and LName to last_name, and the composer's
\* rule is RegStNum, RegStName, RegStType, RegCity, RegState, RegZipCode; the
\* import of the single row W1, John, Smith, 123, Main, St, Seattle, WA, 98101
\* commits exactly one row, with voter_id W1, first_name John, last_name Smith
\* and address "123 Main St Seattle WA 98101", without an error
C8_WashingtonScenario ==
    /\ (config # NoConfig /\ config.column_names = WAHeader) =>
           /\ dict_has(config.column_mappings, <<"S","t","a","t","e","V","o","t","e","r","I","D">>)
           /\ dict_get(config.column_mappings, <<"S","t","a","t","e","V","o","t","e","r","I","D">>) = "voter_id"
           /\ dict_has(config.column_mappings, <<"F","N","a","m","e">>)
           /\ dict_get(config.column_mappings, <<"F","N","a","m","e">>) = "first_name"
           /\ dict_has(config.column_mappings, <<"L","N","a","m","e">>)
           /\ dict_get(config.column_mappings, <<"L","N","a","m","e">>) = "last_name"
           /\ config.address_fields.fields =
                  << <<"R","e","g","S","t","N","u","m">>, <<"R","e","g","S","t","N","a","m","e">>,
                     <<"R","e","g","S","t","T","y","p","e">>, <<"R","e","g","C","i","t","y">>,
                     <<"R","e","g","S","t","a","t","e">>, <<"R","e","g","Z","i","p","C","o","d","e">> >>
    /\ (pc = "returned0" /\ df = WAFrame) =>
           /\ error = "none"
           /\ Len(table) = Len(tableBefore) + 1
           /\ SubSeq(table, 1, Len(tableBefore)) = tableBefore
           /\ table[Len(table)]["voter_id"] = <<"W","1">>
           /\ table[Len(table)]["first_name"] = <<"J","o","h","n">>
           /\ table[Len(table)]["last_name"] = <<"S","m","i","t","h">>
           /\ table[Len(table)]["address"] =
                  <<"1","2","3"," ","M","a","i","n"," ","S","t"," ","S","e","a","t","t","l","e"," ","W","A"," ","9","8","1","0","1">>

\* the profile was made from that header and the import of that row into the
\* empty table has returned 0
C8_Witness ==
    /\ config # NoConfig
    /\ config.column_names = WAHeader
    /\ pc = "returned0"
    /\ df = WAFrame
    /\ Len(table) = 1

\* C9: for every header, the mapping the resolver returns gives each raw
\* column at most one canonical field and each canonical field at most one
\* raw column
C9_OneToOne ==
    config # NoConfig =>
        \A p, q \in 1..Len(config.column_mappings) :
            p # q => /\ config.column_mappings[p][1] # config.column_mappings[q][1]
                     /\ config.column_mappings[p][2] # config.column_mappings[q][2]

\* a header with two columns that match the patterns of city and one column
\* that matches the patterns of two fields
C9_Witness ==
    /\ config # NoConfig
    /\ config.column_names = << <<"C","i","t","y">>, <<"M","a","i","l","C","i","t","y">>, <<"B","i","r","t","h","d","a","y">> >>
    /\ Len(config.column_mappings) = 3

-----------------------------------------------------------------------------
(* The resolver's mapping, field by field *)

\* the fields of the three pattern tables, in the order they are consulted
pattern_fields == name_patterns \o address_patterns \o mailing_patterns

\* positions of the header's columns whose lowercased name contains one of
\* the variants
matching_columns(patterns) ==
    { k \in 1..Len(config.column_names) :
        matches_any(patterns, lower(config.column_names[k])) }

first_matching_column(patterns) ==
    config.column_names[CHOOSE k \in matching_columns(patterns) :
                            \A m \in matching_columns(patterns) : k <= m]

\* the mapping gives the column this field
mapped_to(column, field) ==
    /\ dict_has(config.column_mappings, column)
    /\ dict_get(config.column_mappings, column) = field

header(names) == config # NoConfig /\ config.column_names = names

\* C11: when two or more columns of the header match the patterns of one
\* field, the mapping gives the field to the first of them in header order
\* and to none of the others
C11_FirstInHeaderOrder ==
    config # NoConfig =>
        \A t \in 1..Len(pattern_fields) :
            Cardinality(matching_columns(pattern_fields[t][2])) >= 2 =>
                \A k \in matching_columns(pattern_fields[t][2]) :
                    mapped_to(config.column_names[k], pattern_fields[t][1])
                        <=> config.column_names[k]
                              = first_matching_column(pattern_fields[t][2])

uses_pattern_tables ==
    LET lookup == df_col_lookup(config.column_names)
    IN  /\ ~all_key_columns(key_columns_WA, lookup)
        /\ ~all_key_columns(key_columns_OR, lookup)
        /\ ~all_key_columns(key_columns_CA, lookup)

\* the assignments the resolver made for the header, in order
resolver_assignments == pattern_assignments(df_col_lookup(config.column_names))

exact_match(patterns, column) ==
    \E k \in 1..Len(patterns) : patterns[k] = lower(column)

\* C19: a column the resolver has assigned to a field is assigned to no
\* later field, of the same or of a later pattern table
C19_AssignedColumnSkipped ==
    (config # NoConfig /\ uses_pattern_tables) =>
        \A p, q \in 1..Len(resolver_assignments) :
            p < q => resolver_assignments[p][1] # resolver_assignments[q][1]

\* C20: the column chosen for a field equals one of the field's variants
\* when lowercased, whenever the header has such a column
C20_ExactMatchPreferred ==
    (config # NoConfig /\ uses_pattern_tables) =>
        \A p \in 1..Len(resolver_assignments) :
            LET patterns == dict_get(pattern_fields, resolver_assignments[p][2])
            IN  (\E k \in 1..Len(config.column_names) :
                     exact_match(patterns, config.column_names[k]))
                    => exact_match(patterns, resolver_assignments[p][1])

-----------------------------------------------------------------------------
(* The composer: onboarding of headers made of address columns *)

AddressColumnNames ==
    { <<"A","D","D","R","E","S","S","_","F","U","L","L">>,
      <<"F","u","l","l","_","A","d","d","r","e","s","s">>,
      <<"Z","i","p">>,
      <<"C","i","t","y">>,
      <<"R","e","g","C","i","t","y">>,
      <<"S","t","N","a","m","e">>,
      <<"S","t","N","u","m">>,
      <<"M","a","i","l","Z","i","p">> }

AddressHeaders ==
    UNION { { h \in [1..n -> AddressColumnNames] :
                \A p, q \in 1..n : p # q => h[p] # h[q] } : n \in 0..MaxHeaderLen }

\* sample files whose combined address column is the mailing address
MailingAddressHeaders ==
    { << <<"M","a","i","l","_","A","d","d","r","e","s","s","_","F","u","l","l">> >>,
      << <<"C","i","t","y">>, <<"M","a","i","l","_","A","d","d","r","e","s","s","_","F","u","l","l">> >>,
      << <<"S","t","N","u","m">>, <<"C","i","t","y">>, <<"M","a","i","l","_","A","d","d","r","e","s","s","_","F","u","l","l">> >> }

AddressProfiles == profiles_of(AddressHeaders \cup MailingAddressHeaders)

NextComposer == \E profile \in AddressProfiles : OnboardState(profile)

SpecComposer == Init /\ [][NextComposer]_vars

\* positions of the header's columns that name a combined address
combined_columns ==
    { k \in 1..Len(config.column_names) :
        matches_any(combined_address_patterns, lower(config.column_names[k])) }

\* C13: when the header has a column with a combined-address token, the rule
\* is that one column alone, the first such column of the header, with a
\* single space as separator
C13_CombinedAddressColumn ==
    (config # NoConfig /\ combined_columns # {}) =>
        /\ Len(config.address_fields.fields) = 1
        /\ \E k \in combined_columns :
               /\ config.address_fields.fields[1] = config.column_names[k]
               /\ \A m \in combined_columns : k <= m
        /\ config.address_fields.separator = <<" ">>

\* two combined columns after a city column: the first combined column alone
C13_Witness ==
    /\ header(<< <<"C","i","t","y">>,
                 <<"F","u","l","l","_","A","d","d","r","e","s","s">>,
                 <<"A","D","D","R","E","S","S","_","F","U","L","L">> >>)
    /\ config.address_fields.fields
         = << <<"F","u","l","l","_","A","d","d","r","e","s","s">> >>

\* position of a component in address_component_order
component_position(component) ==
    CHOOSE n \in 1..Len(address_component_order) :
        address_component_order[n] = component

\* the address component a column of the rule stands for
rule_component(column) == component_of(lower(column), composer_address_patterns)

\* the rule lists address columns by ascending component, columns of one
\* component in header order
rule_in_component_order ==
    \A p, q \in 1..Len(config.address_fields.fields) :
        p < q =>
            /\ rule_component(config.address_fields.fields[p]) # ""
            /\ rule_component(config.address_fields.fields[q]) # ""
            /\ component_position(rule_component(config.address_fields.fields[p]))
                 <= component_position(rule_component(config.address_fields.fields[q]))

one_column_per_component ==
    \A p, q \in 1..Len(config.column_names) :
        (/\ p # q
         /\ rule_component(config.column_names[p]) # ""
         /\ rule_component(config.column_names[p])
              = rule_component(config.column_names[q]))
            => \/ matches_any(composer_mailing_patterns, lower(config.column_names[p]))
               \/ matches_any(composer_mailing_patterns, lower(config.column_names[q]))
               \/ matches_any(voter_id_patterns, lower(config.column_names[p]))
               \/ matches_any(voter_id_patterns, lower(config.column_names[q]))

\* onboarding again with the same columns in another order
header_permuted ==
    /\ config # NoConfig
    /\ config' # NoConfig
    /\ Len(config'.column_names) = Len(config.column_names)
    /\ { config'.column_names[k] : k \in 1..Len(config'.column_names) }
         = { config.column_names[k] : k \in 1..Len(config.column_names) }

\* C14: without a combined column the rule lists the address columns in the
\* fixed component order, and onboarding a permutation of a header that has
\* at most one column per component gives the same rule
C14_FixedComponentOrder ==
    /\ []((config # NoConfig /\ combined_columns = {}) => rule_in_component_order)
    /\ [][ (header_permuted /\ combined_columns = {} /\ one_column_per_component)
              => config'.address_fields = config.address_fields ]_vars

\* zip, city and street number in the header give street number, city, zip
C14_Witness ==
    /\ header(<< <<"Z","i","p">>, <<"C","i","t","y">>, <<"S","t","N","u","m">> >>)
    /\ config.address_fields.fields
         = << <<"S","t","N","u","m">>, <<"C","i","t","y">>, <<"Z","i","p">> >>

-----------------------------------------------------------------------------
(* Imports of files with address columns under their own profile *)

NextAddress ==
    \/ \E profile \in AddressSampleProfiles : OnboardState(profile)
    \/ \E f \in BOOLEAN : ImportMain_NoConfig(f)
    \/ ImportMain_TableExists
    \/ \E file \in AddressFiles, f \in BOOLEAN : ImportMain_ImportData(file, f)
    \/ ImportChunk
    \/ ImportMain_Return

SpecAddress == Init /\ [][NextAddress]_vars

\* the values of row r of the file in the rule's columns that are not blank,
\* in the rule's order, joined by the rule's separator
formatted_address(r) ==
    join(config.address_fields.separator,
         non_blank([k \in 1..Len(config.address_fields.fields) |->
                       df_column(df, config.address_fields.fields[k])[r]]))

\* the profile has a rule and the file has the rule's columns
rule_applies ==
    /\ config # NoConfig
    /\ config.address_fields.fields # <<>>
    /\ \A k \in 1..Len(config.address_fields.fields) :
           \E c \in 1..Len(df.columns) : df.columns[c] = config.address_fields.fields[k]

\* C15: the address of every row a chunk writes is the non-blank values of
\* the rule's columns in that row, in the rule's order, joined by the rule's
\* separator
C15_FormattedAddress ==
    [][ (pc = "importing" /\ rule_applies /\ Len(table') > Len(table)) =>
            \A k \in 1..(Len(table') - Len(table)) :
                /\ "address" \in DOMAIN table'[Len(table) + k]
                /\ table'[Len(table) + k].address = formatted_address(i + k) ]_vars

-----------------------------------------------------------------------------
(* Runs of import_main *)

\* an invocation of import_main starts in this step
run_starts == runs' = runs + 1

\* the invocation raised at open(config_file)
failed_at_profile == pc = "raised" /\ error = "FileNotFoundError"

\* C16: an import started without a profile fails at once, before a file is
\* read: it creates no table and writes no row, and nothing is written after
\* the failure either
C16_NoProfileNoImport ==
    [][ /\ (config = NoConfig /\ run_starts) =>
              /\ failed_at_profile'
              /\ df' = NoFrame /\ df_mapped' = <<>>
              /\ tableExists' = tableExists /\ table' = table
        /\ (failed_at_profile /\ ~run_starts) =>
              (tableExists' = tableExists /\ table' = table) ]_vars

\* an import without a profile has failed; no profile was ever written, so no
\* table exists
C16_Witness ==
    /\ failed_at_profile
    /\ config = NoConfig
    /\ runs = 1
    /\ ~tableExists
    /\ table = <<>>

\* a write of this invocation was rejected: the chunk loop raised, or the
\* to_sql of the Washington test branch raised and was caught
write_failed ==
    \/ pc = "raised" /\ error # "FileNotFoundError"
    \/ /\ wa_test_has_columns(df)
       /\ \E k \in 1..Len(stdout) : stdout[k].msg = "Error importing WA test data"

\* C17: an invocation only moves forward: once it has ended it stays ended,
\* and after a rejected write it writes nothing more
C17_ForwardOnly ==
    [][ ~run_starts =>
            /\ run_ended => (pc' = pc /\ table' = table)
            /\ write_failed => table' = table ]_vars

-----------------------------------------------------------------------------
(* Two invocations of import_main, in two processes, on the same table. Each *)
(* to_sql is one transaction of SQLite, so the chunks of the two invocations *)
(* interleave as whole chunks                                                *)

\* the data files of the two invocations: identified rows, no special names
ConcurrentFiles ==
    { file \in ImportFiles :
        /\ ~is_wa_test(file.name)
        /\ file.frame.columns = GenericHeader
        /\ file.frame.rows # <<>>
        /\ \A r \in 1..Len(file.frame.rows) : notna(file.frame.rows[r][1]) }

\* import_main of the other process, lines 463-487 and 606-615, and its
\* import_data up to the chunk loop; the table of the first process exists,
\* so the other one is started with --force
Peer_ImportData(file) ==
    /\ peer.pc = "idle"
    /\ config # NoConfig
    /\ tableExists
    /\ peer' = [pc        |-> "importing",
                df_mapped |-> mapped_frames[config, file.frame],
                i         |-> 0,
                error     |-> "none"]
    /\ UNCHANGED <<config, tableExists, table, pc, force, df, df_mapped, i, chunk_size,
                   stdout, error, tableBefore, runs>>

\* one iteration of the chunk loop of the other process, lines 409-412
Peer_ImportChunk ==
    /\ peer.pc = "importing"
    /\ peer.i < mapped_len(peer.df_mapped)
    /\ LET chunk  == iloc(sql_rows(peer.df_mapped), peer.i, peer.i + chunk_size)
           result == to_sql(table, chunk, dict_keys(peer.df_mapped))
       IN  IF result.error = "none"
           THEN /\ table' = result.table
                /\ peer' = [peer EXCEPT !.i = peer.i + chunk_size]
           ELSE /\ table' = table
                /\ peer' = [peer EXCEPT !.pc = "raised", !.error = result.error]
    /\ UNCHANGED <<config, tableExists, pc, force, df, df_mapped, i, chunk_size,
                   stdout, error, tableBefore, runs>>

\* import_data of the other process returns; import_main, lines 617-619
Peer_Return ==
    /\ peer.pc = "importing"
    /\ peer.i >= mapped_len(peer.df_mapped)
    /\ peer' = [peer EXCEPT !.pc = "returned0"]
    /\ UNCHANGED <<config, tableExists, table, pc, force, df, df_mapped, i, chunk_size,
                   stdout, error, tableBefore, runs>>

NextConcurrent ==
    \/ \E profile \in SampleProfiles : OnboardState(profile)
    \/ \E file \in ConcurrentFiles, f \in BOOLEAN : ImportMain_ImportData(file, f)
    \/ ImportChunk
    \/ ImportMain_Return
    \/ \E file \in ConcurrentFiles : Peer_ImportData(file)
    \/ Peer_ImportChunk
    \/ Peer_Return

SpecConcurrent == Init /\ [][NextConcurrent]_vars

\* the rows a step has appended to the table
appended_rows == SubSeq(table', Len(table) + 1, Len(table'))

\* C18: however the chunks of two concurrent imports interleave, the table
\* never holds two rows with the same voter_id: a chunk is appended only when
\* its identifiers are new to the table, and an invocation that stops in its
\* chunk loop stops with the uniqueness violation and leaves the table as it
\* was
C18_ConcurrentRunsUnique ==
    [][ /\ \A p, q \in 1..Len(table') :
               (p # q /\ notna(row_voter_id(table'[p])))
                   => row_voter_id(table'[p]) # row_voter_id(table'[q])
        /\ table_ids(appended_rows) \cap table_ids(table) = {}
        /\ (pc = "importing" /\ pc' = "raised")
               => (error' = "IntegrityError" /\ table' = table)
        /\ (peer.pc = "importing" /\ peer'.pc = "raised")
               => (peer'.error = "IntegrityError" /\ table' = table) ]_vars

\* the first import was rejected for an identifier that neither the table had
\* when it started nor its own batch repeats, while the other import is in
\* its chunk loop and has written: the identifier is a row of the other import
C18_Witness ==
    /\ pc = "raised"
    /\ error = "IntegrityError"
    /\ duplicated_ids = {}
    /\ \A p \in 1..Len(batch_ids) : batch_ids[p] \notin table_ids(tableBefore)
    /\ peer.pc = "importing"
    /\ peer.i > 0
    /\ i > 0

-----------------------------------------------------------------------------
(* The resolver on sample files of the known state formats *)

\* the key columns of one format, of two formats at once, in lower case, and
\* incomplete
FormatKeyColumns ==
    { key_columns_WA, key_columns_OR, key_columns_CA,
      key_columns_CA \o key_columns_WA,
      key_columns_CA \o key_columns_OR,
      [k \in 1..Len(key_columns_WA) |-> lower(key_columns_WA[k])],
      SubSeq(key_columns_WA, 1, 2),
      <<>> }

\* a column of the Oregon and California tables, one of the Washington table,
\* one of the Washington and Oregon tables, one of no table
ExtraColumnNames ==
    { <<"C","i","t","y">>, <<"R","e","g","C","i","t","y">>, <<"M","a","i","l","Z","i","p">>, <<"N","o","t","e","s">> }

FormatHeaders ==
    { keys \o extra :
        keys \in FormatKeyColumns,
        extra \in UNION { { h \in [1..n -> ExtraColumnNames] :
                              \A p, q \in 1..n : p # q => h[p] # h[q] } :
                          n \in 0..MaxExtraColumns } }

FormatProfiles == profiles_of(FormatHeaders)

NextFormats == \E profile \in FormatProfiles : OnboardState(profile)

SpecFormats == Init /\ [][NextFormats]_vars

header_columns == { config.column_names[k] : k \in 1..Len(config.column_names) }

mapping_entries == { config.column_mappings[k] : k \in 1..Len(config.column_mappings) }

\* C21: every entry of the mapping has a column of the header as its key;
\* when the pattern tables decide, the column's lowercased name contains a
\* variant of the field of its entry, and a field that no column matches has
\* no entry
C21_NoFabricatedMapping ==
    config # NoConfig =>
        /\ \A entry \in mapping_entries : entry[1] \in header_columns
        /\ uses_pattern_tables =>
              /\ \A entry \in mapping_entries :
                     matches_any(dict_get(pattern_fields, entry[2]), lower(entry[1]))
              /\ \A t \in 1..Len(pattern_fields) :
                     matching_columns(pattern_fields[t][2]) = {} =>
                         \A entry \in mapping_entries : entry[2] # pattern_fields[t][1]

\* two of the three Washington key columns and a city column: the pattern
\* tables map the three of them, and the column of no table has no entry
C21_Witness ==
    /\ header(<< <<"F","N","a","m","e">>, <<"L","N","a","m","e">>, <<"C","i","t","y">>, <<"N","o","t","e","s">> >>)
    /\ uses_pattern_tables
    /\ mapping_entries = { <<<<"F","N","a","m","e">>, "first_name">>, <<<<"L","N","a","m","e">>, "last_name">>,
                           <<<<"C","i","t","y">>, "city">> }

\* every key column is a column of the header, compared in lower case
has_key_columns(keys) ==
    \A k \in 1..Len(keys) :
        \E c \in header_columns : lower(c) = lower(keys[k])

\* the fixed table of the first format, in the order WA, OR, CA, whose key
\* columns the header has
recognised_format ==
    IF has_key_columns(key_columns_WA) THEN state_mappings_WA
    ELSE IF has_key_columns(key_columns_OR) THEN state_mappings_OR
    ELSE state_mappings_CA

\* C29: when the header has all key columns of a known state format, the
\* mapping is the fixed table of the first such format in the order WA, OR,
\* CA, restricted to the columns of the header and keyed by their spelling
\* in the header; no entry comes from the pattern tables
C29_StateFormatMapping ==
    (/\ config # NoConfig
     /\ \/ has_key_columns(key_columns_WA)
        \/ has_key_columns(key_columns_OR)
        \/ has_key_columns(key_columns_CA)) =>
        /\ \A entry \in mapping_entries :
               /\ entry[1] \in header_columns
               /\ \E k \in 1..Len(recognised_format) :
                      /\ lower(recognised_format[k][1]) = lower(entry[1])
                      /\ recognised_format[k][2] = entry[2]
        /\ \A k \in 1..Len(recognised_format) :
               (\E c \in header_columns : lower(c) = lower(recognised_format[k][1]))
                   => Cardinality({ entry \in mapping_entries :
                                      lower(entry[1]) = lower(recognised_format[k][1]) }) = 1

\* the California and the Washington key columns and a city column, which
\* only the pattern tables and the California table know: Washington wins
C29_Witness ==
    /\ header(key_columns_CA \o key_columns_WA \o << <<"C","i","t","y">>, <<"R","e","g","C","i","t","y">> >>)
    /\ mapping_entries = { <<<<"F","N","a","m","e">>, "first_name">>, <<<<"L","N","a","m","e">>, "last_name">>,
                           <<<<"S","t","a","t","e","V","o","t","e","r","I","D">>, "voter_id">>, <<<<"R","e","g","C","i","t","y">>, "city">> }

\* C22: no column whose lowercased name contains a mailing-address token or
\* a voter-identifier token is in the address rule
C22_NoMailingOrIdentifierColumn ==
    config # NoConfig =>
        \A k \in 1..Len(config.address_fields.fields) :
            /\ ~matches_any(composer_mailing_patterns,
                            lower(config.address_fields.fields[k]))
            /\ ~matches_any(voter_id_patterns,
                            lower(config.address_fields.fields[k]))

\* row r of the file has no value in any column of the rule
address_columns_empty(r) ==
    \A k \in 1..Len(config.address_fields.fields) :
        LET val == df_column(df, config.address_fields.fields[k])[r]
        IN  ~notna(val) \/ strip(val) = <<>>

\* C23: a row without a value in any column of the rule is written with the
\* empty string as its address, not with a null
C23_EmptyAddressNotNull ==
    [][ (pc = "importing" /\ rule_applies /\ Len(table') > Len(table)) =>
            \A k \in 1..(Len(table') - Len(table)) :
                address_columns_empty(i + k) =>
                    /\ "address" \in DOMAIN table'[Len(table) + k]
                    /\ table'[Len(table) + k].address = <<>> ]_vars

-----------------------------------------------------------------------------
(* The rows an import writes, field by field *)

\* the value of a field of a written row; a NULL is a missing value
written_value(row, field) == IF field \in DOMAIN row THEN row[field] ELSE NaN

\* the row of the file that the k-th row appended by this step was made from
source_row(k) == df'.rows[(IF pc = "importing" THEN i ELSE 0) + k]

\* the step appends rows of a batch that was mapped under the profile on disk
writes_under_profile ==
    /\ config # NoConfig
    /\ Len(table') > Len(table)
    /\ pc = "importing" => df_mapped = mapped_frames[config, df]

\* C24: for every entry of the profile's column_mappings, a written row has
\* the row's value of the raw column in the canonical field when the file has
\* the raw column, compared without case, and has no value in the field when
\* the file does not have it
C24_MappingsApplied ==
    [][ writes_under_profile =>
            \A k \in 1..(Len(table') - Len(table)) :
                \A entry \in mapping_entries :
                    LET found == { c \in 1..Len(df'.columns) :
                                     lower(df'.columns[c]) = lower(entry[1]) }
                    IN  IF found # {}
                        THEN \E c \in found :
                                 written_value(table'[Len(table) + k], entry[2])
                                     = source_row(k)[c]
                        ELSE entry[2] \notin DOMAIN table'[Len(table) + k] ]_vars

\* args.state of import_main, which names the profile file that was opened:
\* the code the profile on disk was onboarded with
caller_state_code == IF config.state_code = "XX" THEN <<"X","X">> ELSE <<>>

\* C25: every row an import writes has the jurisdiction code the caller
\* supplied in its state field, whatever the file's own state column holds
C25_CallerStateCodeStamped ==
    [][ (config # NoConfig /\ Len(table') > Len(table)) =>
            \A k \in (Len(table) + 1)..Len(table') :
                written_value(table'[k], "state") = caller_state_code ]_vars

\* C26: the rows an import has written are rows of a table that has every
\* required field as a column, empty where no raw column supplied a value
C26_RequiredFieldsPresent ==
    (tableExists /\ table # <<>>) =>
        \A field \in required_fields : field \in table_columns

-----------------------------------------------------------------------------
(* Chunks are committed whole and in order *)

\* the numbers of rows of the batch that whole chunks cover
chunk_boundaries ==
    LET len == mapped_len(df_mapped)
    IN  { IF j * chunk_size < len THEN j * chunk_size ELSE len : j \in 0..len }

\* the rows this invocation has added are the first n rows of its batch
added_prefix(n) == table = tableBefore \o SubSeq(sql_rows(df_mapped), 1, n)

\* the chunk loop has got as far as row i of the batch
rows_before_i == IF i < mapped_len(df_mapped) THEN i ELSE mapped_len(df_mapped)

-----------------------------------------------------------------------------
(* An existing table is left alone unless --force is given *)

\* an invocation without --force starts while the destination table exists
starts_unforced_on_table == run_starts /\ tableExists /\ ~force'

\* C28: an invocation that finds the destination table and has no --force
\* returns 1 with the one message, reads no data file, builds no batch,
\* creates no table and writes no row; until the next invocation starts the
\* table stays what it was
C28_ExistingTableUntouched ==
    /\ [](pc = "returned1" => (table = tableBefore /\ tableExists /\ df = NoFrame
                               /\ df_mapped = <<>> /\ error = "none"))
    /\ [][ /\ starts_unforced_on_table =>
                /\ pc' = "returned1"
                /\ df' = NoFrame
                /\ table' = table
                /\ tableExists' = tableExists
           /\ (pc = "returned1" /\ ~run_starts) =>
                (table' = table /\ tableExists' = tableExists /\ pc' = pc) ]_vars

\* an invocation has returned 1 on a table that holds rows
C28_Witness ==
    /\ pc = "returned1"
    /\ ~force
    /\ tableExists
    /\ table # <<>>
    /\ table = tableBefore
    /\ df = NoFrame

-----------------------------------------------------------------------------
(* The fields of a profile are columns of the table *)

\* the canonical fields the values of a state-specific table name
state_fields(mappings) == { mappings[k][2] : k \in 1..Len(mappings) }

\* every canonical field analyze_columns can put into a mapping
resolver_fields ==
    { pattern_fields[k][1] : k \in 1..Len(pattern_fields) }
        \cup state_fields(state_mappings_WA)
        \cup state_fields(state_mappings_OR)
        \cup state_fields(state_mappings_CA)

\* the columns of the batch of the current invocation
batch_columns == { df_mapped[k][1] : k \in 1..Len(df_mapped) }

\* C30: every canonical field of the pattern tables and of the state tables
\* is a column of the table create_table creates; so are the fields of the
\* profile on disk and the columns of every batch built under it, and no
\* append is rejected for an unknown column
C30_EmittedFieldsAreColumns ==
    /\ resolver_fields \subseteq table_columns
    /\ config # NoConfig => \A entry \in mapping_entries : entry[2] \in table_columns
    /\ batch_columns \subseteq table_columns
    /\ error # "OperationalError"

\* an import under a profile with parsed address parts has appended its rows
C30_Witness ==
    /\ pc = "returned0"
    /\ config # NoConfig
    /\ table # tableBefore
    /\ \E entry \in mapping_entries : entry[2] \in batch_columns
    /\ "address_street_name" \in batch_columns

====
